---- MODULE Spec2Model ----
(***************************************************************************)
(* State-machine model of the SocketQuiz session/game coordinator          *)
(* (src/server/index.js): the session registry, the join / ready /         *)
(* submitAnswer / startGame / disconnect handlers and the timer callbacks  *)
(* (lobby deadline, lobby tick, question tick, question deadline, reveal   *)
(* pause, results grace, disconnect removal).  Node runs every handler and *)
(* callback to completion on one event loop, so each is one atomic action. *)
(***************************************************************************)
EXTENDS Integers, Sequences, FiniteSets, TLC

(* ---------------- program constants ---------------- *)
MAX_SESSIONS == 3
CAPACITY == 4
LOBBY_TIMER == 15
MIN_QUESTION_TIMER == 10
MAX_QUESTION_TIMER == 20
BASE_QUESTION_TIMER == 15
QUESTIONS_PER_GAME == 10
REVEAL_SECONDS == 3
RESULTS_GRACE_SECONDS == 30
SCORE_PER_CORRECT == 10

(* ---------------- bounds of the model ---------------- *)
\* sockets that exist during a run (socket ids 1..NumConns)
NumConns == 5
\* session ids generateSessionId may hand out during a run
MaxSid == 4
\* option indices a client may submit are 0..NumOptions-1
NumOptions == 2
\* Spec: the sockets that send events, the sockets among them that submit
\* answers, the sessions created, questions.length, the cap on answers.length
NumPlayers == 2
NumAnswerers == 1
MaxGames == 1
NumQuestions == 2
MaxAnswers == 2
\* SpecAdmission: the sockets that join, the sockets among them that
\* disconnect, questions.length
NumCrowd == 4
NumLeavers == 1
AdmissionQuestions == 1
\* SpecCapacity: every socket joins, the sockets among them that send startGame
\* and disconnect, the sessions created
NumActors == 1
CapacityGames == 2
\* SpecRanking: the most correct answers of a player when the game ends
RankMaxCorrect == 3
\* SpecEndToEnd: the draws selectRandomQuestions may return for the game
NumDraws == 2
\* SpecGrace: the sockets that join, the sessions created
NumGuests == 3
GraceGames == 3
\* SpecLobby: the sessions created
LobbyGames == 1
\* SpecPlacement: the sockets that join, the sessions created
NumArrivals == 6
PlacementGames == 2
\* SpecTimer: the players of the session, their average latencies in ms are
\* the multiples of LatencyStep up to MaxLatency
NumTimed == 3
LatencyStep == 50
MaxLatency == 600

Conns == 1..NumConns
SessionIds == 1..MaxSid
Options == 0..(NumOptions - 1)
Players == 1..NumPlayers
Answerers == 1..NumAnswerers
Crowd == 1..NumCrowd
Leavers == 1..NumLeavers
Actors == 1..NumActors
Guests == 1..NumGuests
Arrivals == 1..NumArrivals
Timed == 1..NumTimed
Latencies == { k * LatencyStep : k \in 0..(MaxLatency \div LatencyStep) }

\* questionsData: the question bank, each question reduced to its correctOption;
\* it holds QUESTIONS_PER_GAME questions, the fewest a full game needs
questionsData == [i \in 1..QUESTIONS_PER_GAME |-> (i - 1) % NumOptions]

\* selectRandomQuestions(count): the possible results of shuffling a bank of
\* count questions and taking the first count of them, as bank indices
selectRandomQuestions(count) ==
  { q \in [1..count -> 1..count] :
      \A i, j \in 1..count : i # j => q[i] # q[j] }

VARIABLES
  sessions,            \* the registry: session id -> session object
  nextSid,             \* number of ids generateSessionId has produced so far
  lobbyTimer,          \* sid -> lobby deadline setTimeout is pending
  lobbyTimerInterval,  \* sid -> lobby tick setInterval is running
  timerInterval,       \* sid -> question tick setInterval is running
  questionTimer,       \* sid -> the pending question deadline: [index, question], NoTimer if none
  revealTimer,         \* sid -> the 3 s pause after question-ended is pending
  cleanupTimer,        \* sid -> the 30 s results-grace setTimeout is pending
  conn,                \* socket id -> "open" | "closing" | "closed"
  stats,               \* socket id -> averageLatency of networkMonitor.getStats, 0 when it has none
  last                 \* the handler that last changed the state: [op, sid, before]

timerVars == <<lobbyTimer, lobbyTimerInterval, timerInterval, questionTimer,
               revealTimer, cleanupTimer>>
vars == <<sessions, nextSid, lobbyTimer, lobbyTimerInterval, timerInterval,
          questionTimer, revealTimer, cleanupTimer, conn, stats, last>>

(* ---------------- helpers on the registry ---------------- *)
Min(S) == CHOOSE x \in S : \A y \in S : x <= y

\* the coordinator state a handler reads and writes, as one record
World ==
  [sessions |-> sessions, nextSid |-> nextSid, lobbyTimer |-> lobbyTimer,
   lobbyTimerInterval |-> lobbyTimerInterval, timerInterval |-> timerInterval,
   questionTimer |-> questionTimer, revealTimer |-> revealTimer,
   cleanupTimer |-> cleanupTimer, stats |-> stats, sent |-> <<>>]

\* session.players.some(p => p.id === socket.id)
HasPlayer(s, c) == \E i \in 1..Len(s.players) : s.players[i].id = c

\* session.players.findIndex(p => p.id === socket.id), 1-based; 0 when absent
PlayerIndex(s, c) ==
  IF HasPlayer(s, c)
    THEN Min({ i \in 1..Len(s.players) : s.players[i].id = c })
    ELSE 0

\* for (const [sessionId, session] of sessions): the Map iterates in insertion
\* order, which is the order of the ids; first session holding socket c, else 0
FindSessionOf(w, c) ==
  LET S == { sid \in DOMAIN w.sessions : HasPlayer(w.sessions[sid], c) }
  IN IF S = {} THEN 0 ELSE Min(S)

\* players.splice(i, 1)
RemoveAt(seq, i) == [k \in 1..(Len(seq) - 1) |-> IF k < i THEN seq[k] ELSE seq[k + 1]]

\* sessions.set(sid, s)
SetSession(w, sid, s) ==
  [w EXCEPT !.sessions =
     [x \in (DOMAIN w.sessions) \cup {sid} |-> IF x = sid THEN s ELSE w.sessions[x]]]

\* sessions.delete(sid)
DeleteSession(w, sid) ==
  [w EXCEPT !.sessions = [x \in (DOMAIN w.sessions) \ {sid} |-> w.sessions[x]]]

(* ---------------- outbound messages ---------------- *)
\* one emitted message; room = 0 for a message to one socket, socket = 0 for a
\* room broadcast; correctOption = -1 when the payload carries none
Msg(type, room, socket, gameState, questionNumber, count, correctOption) ==
  [type |-> type, room |-> room, socket |-> socket, gameState |-> gameState,
   questionNumber |-> questionNumber, count |-> count,
   correctOption |-> correctOption, results |-> <<>>]

Emit(w, m) == [w EXCEPT !.sent = Append(w.sent, m)]

\* the correctOption of session.questions[index], -1 when index is out of range
CorrectOptionAt(s, index) ==
  IF index >= 0 /\ index < Len(s.questions)
    THEN questionsData[s.questions[index + 1]]
    ELSE -1

\* the gameState snapshot built from the live session object (join of a known
\* socket, removal of a player): currentQuestion is the full question record
SnapshotMsg(sid, s) ==
  Msg("gameState", sid, 0, s.status, s.currentQuestionIndex + 1,
      Len(s.players), CorrectOptionAt(s, s.currentQuestionIndex))

(* ---------------- timers ---------------- *)
\* value of questionTimer[sid] when no question deadline is pending
NoTimer == [index |-> -1, question |-> 0, timeLimit |-> 0]

\* startLobbyTimer arming the 1 s sync interval but no deadline
startLobbyTimer_noDeadline(w, sid) ==
  IF sid \notin DOMAIN w.sessions THEN w
  ELSE [w EXCEPT !.lobbyTimerInterval[sid] = TRUE,
                 !.sessions[sid].lobbyStarts = @ + 1]

\* startLobbyTimer(sessionId): (re)arms the lobby deadline and the lobby tick
\* and sets session.lobbyStartTime; lobbyStarts counts the times it ran for
\* the session
startLobbyTimer(w, sid) ==
  IF sid \notin DOMAIN w.sessions THEN w
  ELSE [w EXCEPT !.lobbyTimer[sid] = TRUE, !.lobbyTimerInterval[sid] = TRUE,
                 !.sessions[sid].lobbyStarts = @ + 1]

(* ---------------- adaptive question timer ---------------- *)
\* Math.round(num / den) for den > 0: the nearest integer, a tie rounded up
Round(num, den) == (2 * num + den) \div (2 * den)

RECURSIVE SumLatency(_)
\* networkStats.reduce((sum, stats) => sum + (stats?.averageLatency || 0), 0)
SumLatency(networkStats) ==
  IF networkStats = <<>> THEN 0
  ELSE networkStats[1] + SumLatency(Tail(networkStats))

\* the time limit for the averageLatency values networkStats of n >= 1 players,
\* with the interpolated limit rounded down
TimerFor_roundsDown(networkStats) ==
  LET n == Len(networkStats)
      total == SumLatency(networkStats)
  IN IF total <= 100 * n THEN MIN_QUESTION_TIMER
     ELSE IF total >= 500 * n THEN MAX_QUESTION_TIMER
     ELSE (MIN_QUESTION_TIMER * 400 * n
             + (total - 100 * n) * (MAX_QUESTION_TIMER - MIN_QUESTION_TIMER))
            \div (400 * n)

\* the time limit for the averageLatency values networkStats of n >= 1 players:
\* avgLatency = total / n, MIN up to 100 ms, MAX from 500 ms, in between
\* Math.round(MIN + ((avgLatency - 100) / 400) * (MAX - MIN))
TimerFor(networkStats) ==
  LET n == Len(networkStats)
      total == SumLatency(networkStats)
  IN IF total <= 100 * n THEN MIN_QUESTION_TIMER
     ELSE IF total >= 500 * n THEN MAX_QUESTION_TIMER
     ELSE Round(MIN_QUESTION_TIMER * 400 * n
                  + (total - 100 * n) * (MAX_QUESTION_TIMER - MIN_QUESTION_TIMER),
                400 * n)

\* calculateAdaptiveTimer(sessionId), for a session that has players
calculateAdaptiveTimer(w, sid) ==
  IF sid \notin DOMAIN w.sessions THEN BASE_QUESTION_TIMER
  ELSE LET players == w.sessions[sid].players
       IN TimerFor([i \in 1..Len(players) |-> w.stats[players[i].id]])

(* ---------------- end of game ---------------- *)
\* player.answers.filter(a => a.isCorrect).length
CorrectCount(answers) == Cardinality({ i \in 1..Len(answers) : answers[i].isCorrect })

\* .sort((a, b) => a.score - b.score): stable, ascending by score
RECURSIVE SortByScore_ascending(_)
SortByScore_ascending(seq) ==
  IF Len(seq) <= 1 THEN seq
  ELSE LET x == seq[Len(seq)]
           r == SortByScore_ascending(SubSeq(seq, 1, Len(seq) - 1))
           k == Cardinality({ i \in 1..Len(r) : r[i].score <= x.score })
       IN SubSeq(r, 1, k) \o <<x>> \o SubSeq(r, k + 1, Len(r))

\* .sort((a, b) => b.score - a.score): stable, descending by score
RECURSIVE SortByScore(_)
SortByScore(seq) ==
  IF Len(seq) <= 1 THEN seq
  ELSE LET x == seq[Len(seq)]
           r == SortByScore(SubSeq(seq, 1, Len(seq) - 1))
           k == Cardinality({ i \in 1..Len(r) : r[i].score >= x.score })
       IN SubSeq(r, 1, k) \o <<x>> \o SubSeq(r, k + 1, Len(r))

\* the forEach of endGame giving the next lower score the next rank (dense
\* ranking 1,1,2,3)
RECURSIVE AssignRanks_dense(_, _)
AssignRanks_dense(seq, st) ==
  IF seq = <<>> THEN st.out
  ELSE LET p == Head(seq)
           rank == IF p.score < st.prev THEN st.rank + 1 ELSE st.rank
       IN AssignRanks_dense(Tail(seq),
            [rank |-> rank, prev |-> p.score, n |-> st.n,
             out |-> Append(st.out, [id |-> p.id, score |-> p.score,
                                      correctAnswers |-> p.correctAnswers,
                                      rank |-> rank])])

\* the forEach of endGame over the sorted list: st = [rank, prev, n, out]
RECURSIVE AssignRanks(_, _)
AssignRanks(seq, st) ==
  IF seq = <<>> THEN st.out
  ELSE LET p == Head(seq)
           rank == IF p.score < st.prev THEN st.rank + st.n ELSE st.rank
           n == IF p.score < st.prev THEN 1
                ELSE IF p.score = st.prev THEN st.n + 1
                ELSE 1
       IN AssignRanks(Tail(seq),
            [rank |-> rank, prev |-> p.score, n |-> n,
             out |-> Append(st.out, [id |-> p.id, score |-> p.score,
                                      correctAnswers |-> p.correctAnswers,
                                      rank |-> rank])])

\* playerResults counting every answer as a correct one
PlayerResults_countsAnswers(players) ==
  AssignRanks(
    SortByScore([i \in 1..Len(players) |->
                   [id |-> players[i].id, score |-> players[i].score,
                    correctAnswers |-> Len(players[i].answers)]]),
    [rank |-> 1, prev |-> -1, n |-> 0, out |-> <<>>])

\* playerResults of endGame
PlayerResults(players) ==
  AssignRanks(
    SortByScore([i \in 1..Len(players) |->
                   [id |-> players[i].id, score |-> players[i].score,
                    correctAnswers |-> CorrectCount(players[i].answers)]]),
    [rank |-> 1, prev |-> -1, n |-> 0, out |-> <<>>])

\* endGame(sessionId)
endGame(w, sid) ==
  IF sid \notin DOMAIN w.sessions THEN w
  ELSE LET s == w.sessions[sid]
           w1 == SetSession(w, sid, [s EXCEPT !.status = "ended"])
           m == [Msg("game-ended", sid, 0, "", 0, Len(s.players), -1)
                   EXCEPT !.results = PlayerResults(s.players)]
       IN [Emit(w1, m) EXCEPT !.cleanupTimer[sid] = TRUE]

(* ---------------- question cycle ---------------- *)
\* nextQuestion ending the game one question early
nextQuestion_endsEarly(w, sid) ==
  IF sid \notin DOMAIN w.sessions THEN w
  ELSE LET s == w.sessions[sid]
           idx == s.currentQuestionIndex + 1
           w1 == SetSession(w, sid, [s EXCEPT !.currentQuestionIndex = idx])
       IN IF idx >= Len(s.questions) - 1
            THEN endGame(w1, sid)
            ELSE [Emit(w1, Msg("question", sid, 0, "", idx + 1, Len(s.players), -1))
                    EXCEPT !.timerInterval[sid] = TRUE,
                           !.questionTimer[sid] =
                              [index |-> idx, question |-> s.questions[idx + 1],
                               timeLimit |-> calculateAdaptiveTimer(w, sid)]]

\* nextQuestion(sessionId)
nextQuestion(w, sid) ==
  IF sid \notin DOMAIN w.sessions THEN w
  ELSE LET s == w.sessions[sid]
           idx == s.currentQuestionIndex + 1
           w1 == SetSession(w, sid, [s EXCEPT !.currentQuestionIndex = idx])
       IN IF idx >= Len(s.questions)
            THEN endGame(w1, sid)
            ELSE [Emit(w1, Msg("question", sid, 0, "", idx + 1, Len(s.players), -1))
                    EXCEPT !.timerInterval[sid] = TRUE,
                           !.questionTimer[sid] =
                              [index |-> idx, question |-> s.questions[idx + 1],
                               timeLimit |-> calculateAdaptiveTimer(w, sid)]]

\* startGame(sessionId)
startGame(w, sid) ==
  IF sid \notin DOMAIN w.sessions THEN w
  ELSE LET s == w.sessions[sid]
           w1 == [SetSession(w, sid, [s EXCEPT !.status = "playing"])
                    EXCEPT !.lobbyTimerInterval[sid] = FALSE]
           w2 == Emit(w1, Msg("gameState", sid, 0, "playing", 0, Len(s.players), -1))
           s2 == w2.sessions[sid]
       IN nextQuestion(SetSession(w2, sid, [s2 EXCEPT !.currentQuestionIndex = -1]), sid)

(* ---------------- client event handlers ---------------- *)
\* sessions.size miscounted: only the sessions still in lobby
size_lobbyOnly(w) ==
  Cardinality({ sid \in DOMAIN w.sessions : w.sessions[sid].status = "lobby" })

\* sessions.size
size(w) == Cardinality(DOMAIN w.sessions)

\* canCreateNewSession()
canCreateNewSession(w) == size(w) < MAX_SESSIONS

\* the scan with an off-by-one capacity test (players.length <= 4)
FirstOpenLobby_offByOne(w) ==
  LET S == { sid \in DOMAIN w.sessions :
               w.sessions[sid].status = "lobby"
               /\ Len(w.sessions[sid].players) <= CAPACITY }
  IN IF S = {} THEN 0 ELSE Min(S)

\* the scan returning the last match instead of the first
FirstOpenLobby_lastMatch(w) ==
  LET S == { sid \in DOMAIN w.sessions :
               w.sessions[sid].status = "lobby"
               /\ Len(w.sessions[sid].players) < CAPACITY }
  IN IF S = {} THEN 0 ELSE CHOOSE sid \in S : \A o \in S : o <= sid

\* the scan not testing the status of the session
FirstOpenLobby_anyStatus(w) ==
  LET S == { sid \in DOMAIN w.sessions : Len(w.sessions[sid].players) < CAPACITY }
  IN IF S = {} THEN 0 ELSE Min(S)

\* the scan for a session with status lobby and fewer than 4 players, in
\* registry order; 0 when there is none
FirstOpenLobby(w) ==
  LET S == { sid \in DOMAIN w.sessions :
               w.sessions[sid].status = "lobby"
               /\ Len(w.sessions[sid].players) < CAPACITY }
  IN IF S = {} THEN 0 ELSE Min(S)

\* canPlayerJoinExistingSession()
canPlayerJoinExistingSession(w) == FirstOpenLobby(w) # 0

\* the player object of a join that makes every joiner a host
NewPlayer_alwaysHost(c, host) ==
  [id |-> c, score |-> 0, answers |-> <<>>, isReady |-> FALSE, isHost |-> TRUE]

\* the player object a join creates
NewPlayer(c, host) ==
  [id |-> c, score |-> 0, answers |-> <<>>, isReady |-> FALSE, isHost |-> host]

\* the busy error emitted to every connected socket (io.emit)
BusyMsg_toAll(c) == Msg("error", 0, 0, "SERVER_BUSY", 0, 0, -1)

\* socket.emit('error', 'SERVER_BUSY'): the error goes to the joining socket
BusyMsg(c) == Msg("error", 0, c, "SERVER_BUSY", 0, 0, -1)

\* socket.on('join') without the check for a socket that is already a player
join_noMemberCheck(w, c, draw) ==
  LET busy == Emit(w, BusyMsg(c))
  IN IF size(w) >= MAX_SESSIONS /\ ~canPlayerJoinExistingSession(w)
       THEN busy
     ELSE
       LET open == FirstOpenLobby(w)
           create == open = 0 /\ canCreateNewSession(w)
           sid == IF create THEN w.nextSid + 1 ELSE open
           w1 == IF create
                   THEN [SetSession(w, sid,
                           [id |-> sid, status |-> "lobby", players |-> <<>>,
                            questions |-> draw, currentQuestionIndex |-> -1,
                            lobbyStarts |-> 0])
                           EXCEPT !.nextSid = sid]
                   ELSE w
       IN IF sid = 0 THEN busy
          ELSE LET t == w1.sessions[sid]
                   t1 == [t EXCEPT !.players =
                            Append(t.players, NewPlayer(c, Len(t.players) = 0))]
                   w2 == SetSession(w1, sid, t1)
                   w3 == IF Len(t1.players) = 1 THEN startLobbyTimer(w2, sid) ELSE w2
                   w4 == Emit(w3, Msg("join-ack", 0, c, "", 0, 0, -1))
               IN Emit(w4, Msg("gameState", sid, 0, "lobby", 0, Len(t1.players), -1))

\* socket.on('join') starting the lobby timer at every join
join_restartsTimer(w, c, draw) ==
  LET existing == FindSessionOf(w, c)
      busy == Emit(w, BusyMsg(c))
  IN IF existing # 0
       THEN Emit(w, SnapshotMsg(existing, w.sessions[existing]))
     ELSE IF size(w) >= MAX_SESSIONS /\ ~canPlayerJoinExistingSession(w)
       THEN busy
     ELSE
       LET open == FirstOpenLobby(w)
           create == open = 0 /\ canCreateNewSession(w)
           sid == IF create THEN w.nextSid + 1 ELSE open
           w1 == IF create
                   THEN [SetSession(w, sid,
                           [id |-> sid, status |-> "lobby", players |-> <<>>,
                            questions |-> draw, currentQuestionIndex |-> -1,
                            lobbyStarts |-> 0])
                           EXCEPT !.nextSid = sid]
                   ELSE w
       IN IF sid = 0 THEN busy
          ELSE LET t == w1.sessions[sid]
                   t1 == [t EXCEPT !.players =
                            Append(t.players, NewPlayer(c, Len(t.players) = 0))]
                   w2 == SetSession(w1, sid, t1)
                   w3 == startLobbyTimer(w2, sid)
                   w4 == Emit(w3, Msg("join-ack", 0, c, "", 0, 0, -1))
               IN Emit(w4, Msg("gameState", sid, 0, "lobby", 0, Len(t1.players), -1))

\* socket.on('join'); draw is the result of selectRandomQuestions, used only
\* when the join creates a session
join(w, c, draw) ==
  LET existing == FindSessionOf(w, c)
      busy == Emit(w, BusyMsg(c))
  IN IF existing # 0
       THEN Emit(w, SnapshotMsg(existing, w.sessions[existing]))
     ELSE IF size(w) >= MAX_SESSIONS /\ ~canPlayerJoinExistingSession(w)
       THEN busy
     ELSE
       LET open == FirstOpenLobby(w)
           create == open = 0 /\ canCreateNewSession(w)
           sid == IF create THEN w.nextSid + 1 ELSE open
           w1 == IF create
                   THEN [SetSession(w, sid,
                           [id |-> sid, status |-> "lobby", players |-> <<>>,
                            questions |-> draw, currentQuestionIndex |-> -1,
                            lobbyStarts |-> 0])
                           EXCEPT !.nextSid = sid]
                   ELSE w
       IN IF sid = 0 THEN busy
          ELSE LET t == w1.sessions[sid]
                   t1 == [t EXCEPT !.players =
                            Append(t.players, NewPlayer(c, Len(t.players) = 0))]
                   w2 == SetSession(w1, sid, t1)
                   w3 == IF Len(t1.players) = 1 THEN startLobbyTimer(w2, sid) ELSE w2
                   w4 == Emit(w3, Msg("join-ack", 0, c, "", 0, 0, -1))
               IN Emit(w4, Msg("gameState", sid, 0, "lobby", 0, Len(t1.players), -1))

\* socket.on('ready') with the early start asking for more than two players
ready_needsThree(w, c) ==
  LET sid == FindSessionOf(w, c)
  IN IF sid = 0 THEN w
     ELSE LET s == w.sessions[sid]
              i == PlayerIndex(s, c)
              s1 == [s EXCEPT !.players[i].isReady = TRUE]
              w1 == SetSession(w, sid, s1)
              allReady == \A k \in 1..Len(s1.players) : s1.players[k].isReady
              w2 == IF allReady /\ Len(s1.players) > 2 THEN startGame(w1, sid) ELSE w1
          IN Emit(w2, Msg("gameState", sid, 0, "lobby", 0, Len(s1.players), -1))

\* socket.on('ready')
ready(w, c) ==
  LET sid == FindSessionOf(w, c)
  IN IF sid = 0 THEN w
     ELSE LET s == w.sessions[sid]
              i == PlayerIndex(s, c)
              s1 == [s EXCEPT !.players[i].isReady = TRUE]
              w1 == SetSession(w, sid, s1)
              allReady == \A k \in 1..Len(s1.players) : s1.players[k].isReady
              w2 == IF allReady /\ Len(s1.players) > 1 THEN startGame(w1, sid) ELSE w1
          IN Emit(w2, Msg("gameState", sid, 0, "lobby", 0, Len(s1.players), -1))

\* socket.on('submitAnswer') adding the points whether or not the answer is
\* correct
submitAnswer_alwaysScores(w, c, answer) ==
  LET sid == FindSessionOf(w, c)
  IN IF sid = 0 THEN w
     ELSE LET s == w.sessions[sid]
              i == PlayerIndex(s, c)
              idx == s.currentQuestionIndex
          IN IF ~(idx >= 0 /\ idx < Len(s.questions)) THEN w
             ELSE LET isCorrect == answer = CorrectOptionAt(s, idx)
                      p == s.players[i]
                      p1 == [p EXCEPT
                               !.answers = Append(p.answers,
                                  [questionIndex |-> idx, answer |-> answer,
                                   isCorrect |-> isCorrect]),
                               !.score = p.score + SCORE_PER_CORRECT]
                      w1 == SetSession(w, sid, [s EXCEPT !.players[i] = p1])
                  IN Emit(w1, Msg("playerUpdate", 0, c, "", 0, p1.score, -1))

\* socket.on('submitAnswer') recording an answer before the first question
submitAnswer_acceptsLobby(w, c, answer) ==
  LET sid == FindSessionOf(w, c)
  IN IF sid = 0 THEN w
     ELSE LET s == w.sessions[sid]
              i == PlayerIndex(s, c)
              idx == s.currentQuestionIndex
          IN IF ~(idx < Len(s.questions)) THEN w
             ELSE LET isCorrect == answer = CorrectOptionAt(s, idx)
                      p == s.players[i]
                      p1 == [p EXCEPT
                               !.answers = Append(p.answers,
                                  [questionIndex |-> idx, answer |-> answer,
                                   isCorrect |-> isCorrect]),
                               !.score = IF isCorrect THEN p.score + SCORE_PER_CORRECT
                                         ELSE p.score]
                      w1 == SetSession(w, sid, [s EXCEPT !.players[i] = p1])
                  IN Emit(w1, Msg("playerUpdate", 0, c, "", 0, p1.score, -1))

\* socket.on('submitAnswer') recording an answer after the last question
submitAnswer_acceptsEnded(w, c, answer) ==
  LET sid == FindSessionOf(w, c)
  IN IF sid = 0 THEN w
     ELSE LET s == w.sessions[sid]
              i == PlayerIndex(s, c)
              idx == s.currentQuestionIndex
          IN IF ~(idx >= 0) THEN w
             ELSE LET isCorrect == answer = CorrectOptionAt(s, idx)
                      p == s.players[i]
                      p1 == [p EXCEPT
                               !.answers = Append(p.answers,
                                  [questionIndex |-> idx, answer |-> answer,
                                   isCorrect |-> isCorrect]),
                               !.score = IF isCorrect THEN p.score + SCORE_PER_CORRECT
                                         ELSE p.score]
                      w1 == SetSession(w, sid, [s EXCEPT !.players[i] = p1])
                  IN Emit(w1, Msg("playerUpdate", 0, c, "", 0, p1.score, -1))

\* socket.on('submitAnswer')
submitAnswer(w, c, answer) ==
  LET sid == FindSessionOf(w, c)
  IN IF sid = 0 THEN w
     ELSE LET s == w.sessions[sid]
              i == PlayerIndex(s, c)
              idx == s.currentQuestionIndex
          IN IF ~(idx >= 0 /\ idx < Len(s.questions)) THEN w
             ELSE LET isCorrect == answer = CorrectOptionAt(s, idx)
                      p == s.players[i]
                      p1 == [p EXCEPT
                               !.answers = Append(p.answers,
                                  [questionIndex |-> idx, answer |-> answer,
                                   isCorrect |-> isCorrect]),
                               !.score = IF isCorrect THEN p.score + SCORE_PER_CORRECT
                                         ELSE p.score]
                      w1 == SetSession(w, sid, [s EXCEPT !.players[i] = p1])
                  IN Emit(w1, Msg("playerUpdate", 0, c, "", 0, p1.score, -1))

\* socket.on('startGame') not testing player.isHost
onStartGame_anyPlayer(w, c) ==
  LET S == { sid \in DOMAIN w.sessions : HasPlayer(w.sessions[sid], c) }
  IN IF S = {} THEN w ELSE startGame(w, Min(S))

\* socket.on('startGame')
onStartGame(w, c) ==
  LET S == { sid \in DOMAIN w.sessions :
               /\ HasPlayer(w.sessions[sid], c)
               /\ w.sessions[sid].players[PlayerIndex(w.sessions[sid], c)].isHost }
  IN IF S = {} THEN w ELSE startGame(w, Min(S))

\* a 'quit' event: io.on('connection') registers no listener for it, so the
\* server drops the event
onQuit(w, c) == w

\* the removal callback without the deletion of an emptied session
removePlayer_keepEmpty(w, c) ==
  LET sid == FindSessionOf(w, c)
  IN IF sid = 0 THEN w
     ELSE LET s == w.sessions[sid]
              s1 == [s EXCEPT !.players = RemoveAt(s.players, PlayerIndex(s, c))]
          IN Emit(SetSession(w, sid, s1), SnapshotMsg(sid, s1))

\* the removal callback that also stops the question cycle of the session
removePlayer_stopsCycle(w, c) ==
  LET sid == FindSessionOf(w, c)
  IN IF sid = 0 THEN w
     ELSE LET s == w.sessions[sid]
              s1 == [s EXCEPT !.players = RemoveAt(s.players, PlayerIndex(s, c))]
          IN IF Len(s1.players) = 0
               THEN [DeleteSession(w, sid) EXCEPT !.lobbyTimer[sid] = FALSE]
               ELSE [Emit(SetSession(w, sid, s1), SnapshotMsg(sid, s1))
                       EXCEPT !.questionTimer[sid] = NoTimer,
                              !.timerInterval[sid] = FALSE]

\* the removal callback leaving the player in the session
removePlayer_skips(w, c) == w

\* the removal callback that socket.on('disconnect') schedules after 5 s
removePlayer(w, c) ==
  LET sid == FindSessionOf(w, c)
  IN IF sid = 0 THEN w
     ELSE LET s == w.sessions[sid]
              s1 == [s EXCEPT !.players = RemoveAt(s.players, PlayerIndex(s, c))]
          IN IF Len(s1.players) = 0
               THEN [DeleteSession(w, sid) EXCEPT !.lobbyTimer[sid] = FALSE]
               ELSE Emit(SetSession(w, sid, s1), SnapshotMsg(sid, s1))

(* ---------------- actions ---------------- *)
Apply(w) ==
  /\ sessions' = w.sessions
  /\ nextSid' = w.nextSid
  /\ lobbyTimer' = w.lobbyTimer
  /\ lobbyTimerInterval' = w.lobbyTimerInterval
  /\ timerInterval' = w.timerInterval
  /\ questionTimer' = w.questionTimer
  /\ revealTimer' = w.revealTimer
  /\ cleanupTimer' = w.cleanupTimer
  /\ stats' = w.stats

\* status of session sid in world w, "none" when it is not in the registry
StatusOf(w, sid) ==
  IF sid \in DOMAIN w.sessions THEN w.sessions[sid].status ELSE "none"

\* the record kept in last: the handler that ran, the session it was about
\* (0 when none) and that session's status when the handler began
Changed(op, sid) == [op |-> op, sid |-> sid, before |-> StatusOf(World, sid)]

\* last after a ready, submitAnswer or startGame handler that took the
\* coordinator from World to w: a handler that changed nothing is not recorded
Step(op, sid, w) ==
  IF [w EXCEPT !.sent = <<>>] = World THEN last ELSE Changed(op, sid)

\* a join event from socket c; count is the number of questions of a game and
\* maxSid the number of session ids the run may use
Join(c, count, maxSid) ==
  /\ conn[c] = "open"
  /\ \E draw \in selectRandomQuestions(count) :
       LET w == join(World, c, draw)
       IN /\ w.nextSid <= maxSid
          /\ Apply(w)
          /\ last' = Changed("join", FindSessionOf(w, c))
  /\ UNCHANGED conn

\* a join event from a socket c that is a player of no session
JoinNew(c, count, maxSid) ==
  /\ FindSessionOf(World, c) = 0
  /\ Join(c, count, maxSid)

\* a ready event from socket c
Ready(c) ==
  /\ conn[c] = "open"
  /\ Apply(ready(World, c))
  /\ last' = Step("ready", FindSessionOf(World, c), ready(World, c))
  /\ UNCHANGED conn

\* a submitAnswer event from socket c; maxAnswers caps the answers list
SubmitAnswer(c, answer, maxAnswers) ==
  /\ conn[c] = "open"
  /\ LET sid == FindSessionOf(World, c)
     IN sid # 0 =>
          Len(sessions[sid].players[PlayerIndex(sessions[sid], c)].answers) < maxAnswers
  /\ Apply(submitAnswer(World, c, answer))
  /\ last' = Step("submitAnswer", FindSessionOf(World, c), submitAnswer(World, c, answer))
  /\ UNCHANGED conn

\* a startGame event from socket c
StartGameEvent(c) ==
  /\ conn[c] = "open"
  /\ Apply(onStartGame(World, c))
  /\ last' = Step("startGame", FindSessionOf(World, c), onStartGame(World, c))
  /\ UNCHANGED conn

\* socket.on('disconnect') body: tells the other sockets, networkMonitor drops
\* the socket's statistics, the removal is scheduled
onDisconnect(w, c) ==
  [Emit(w, Msg("peer-disconnected", 0, 0, "", 0, c, -1)) EXCEPT !.stats[c] = 0]

\* socket.on('disconnect'): schedules the removal of the player 5 s later
Disconnect(c) ==
  /\ conn[c] = "open"
  /\ conn' = [conn EXCEPT ![c] = "closing"]
  /\ Apply(onDisconnect(World, c))
  /\ last' = Changed("disconnect", FindSessionOf(World, c))

\* the removal timeout of a disconnected socket fires
RemovalTimeout(c) ==
  /\ conn[c] = "closing"
  /\ conn' = [conn EXCEPT ![c] = "closed"]
  /\ Apply(removePlayer(World, c))
  /\ last' = Changed("removal", FindSessionOf(World, c))

\* A question with index q >= 1 is started by a reveal pause ending, so its
\* deadline is at least q * (MIN_QUESTION_TIMER + REVEAL_SECONDS) +
\* MIN_QUESTION_TIMER seconds after the session's lobby timer was armed: when
\* that exceeds LOBBY_TIMER the lobby deadline has fired before it
AfterLobbyDeadline(q) ==
  q >= 1 /\ q * (MIN_QUESTION_TIMER + REVEAL_SECONDS) + MIN_QUESTION_TIMER > LOBBY_TIMER

\* From a (re)start of a game to its end every question but possibly the
\* first takes a full deadline and reveal pause
MinGameSeconds == (QUESTIONS_PER_GAME - 1) * (MIN_QUESTION_TIMER + REVEAL_SECONDS)

\* the lobby deadline callback asking for more than one player
onLobbyTimer_needsTwo(w, sid) ==
  LET w0 == [w EXCEPT !.lobbyTimer[sid] = FALSE]
  IN IF sid \in DOMAIN w.sessions /\ Len(w.sessions[sid].players) > 1
       THEN startGame(w0, sid) ELSE w0

\* the callback of the lobby deadline setTimeout
onLobbyTimer(w, sid) ==
  LET w0 == [w EXCEPT !.lobbyTimer[sid] = FALSE]
  IN IF sid \in DOMAIN w.sessions /\ Len(w.sessions[sid].players) > 0
       THEN startGame(w0, sid) ELSE w0

\* the lobby deadline setTimeout of session sid fires
LobbyDeadline(sid) ==
  /\ lobbyTimer[sid]
  /\ Apply(onLobbyTimer(World, sid))
  /\ last' = Changed("lobbyTimer", sid)
  /\ UNCHANGED conn

\* the lobby tick setInterval of session sid fires; it stops itself once the
\* remaining lobby time is 0, which is not before the lobby deadline
LobbyTick(sid) ==
  /\ lobbyTimerInterval[sid]
  /\ \E stop \in BOOLEAN :
       /\ stop => ~lobbyTimer[sid]
       /\ Apply([Emit(World, Msg("lobby-timer-update", sid, 0, "", 0, 0, -1))
                   EXCEPT !.lobbyTimerInterval[sid] = ~stop])
       /\ last' = IF stop THEN Changed("lobbyTick", sid) ELSE last
  /\ UNCHANGED conn

\* the question tick setInterval of session sid fires; it stops itself when the
\* remaining time is 0
QuestionTick(sid) ==
  /\ timerInterval[sid]
  /\ \E stop \in BOOLEAN :
       /\ Apply([Emit(World, Msg("timer-update", sid, 0, "", 0, 0, -1))
                   EXCEPT !.timerInterval[sid] = ~stop])
       /\ last' = IF stop THEN Changed("questionTick", sid) ELSE last
  /\ UNCHANGED conn

\* the callback of the question deadline setTimeout: reveals the answer of the
\* question it was armed for and schedules nextQuestion 3 s later
onQuestionTimer(w, sid) ==
  [Emit(w, Msg("question-ended", sid, 0, "", 0, 0,
               questionsData[w.questionTimer[sid].question]))
     EXCEPT !.timerInterval[sid] = FALSE,
            !.questionTimer[sid] = NoTimer,
            !.revealTimer[sid] = TRUE]

\* the question deadline setTimeout of session sid fires.  A reveal pause
\* (3 s) that is pending was started before this deadline (at least 10 s) was
\* armed, so it ends first.
QuestionDeadline(sid) ==
  /\ questionTimer[sid] # NoTimer
  /\ REVEAL_SECONDS < MIN_QUESTION_TIMER => ~revealTimer[sid]
  /\ AfterLobbyDeadline(questionTimer[sid].index) => ~lobbyTimer[sid]
  /\ Apply(onQuestionTimer(World, sid))
  /\ last' = Changed("questionTimer", sid)
  /\ UNCHANGED conn

\* the callback of the 3 s pause after question-ended
onRevealDone(w, sid) == nextQuestion([w EXCEPT !.revealTimer[sid] = FALSE], sid)

\* the 3 s pause after question-ended is over.  A game lasts MinGameSeconds,
\* longer than the lobby countdown and than the results grace: a pending lobby
\* deadline or grace timer fires before the game can end.
RevealDone(sid) ==
  /\ revealTimer[sid]
  /\ LET w == onRevealDone(World, sid)
     IN /\ (StatusOf(w, sid) = "ended" /\ StatusOf(World, sid) # "ended")
             => /\ MinGameSeconds > LOBBY_TIMER => ~lobbyTimer[sid]
                /\ MinGameSeconds > RESULTS_GRACE_SECONDS => ~cleanupTimer[sid]
        /\ Apply(w)
  /\ last' = Changed("revealDone", sid)
  /\ UNCHANGED conn

\* the results-grace callback without the deletion
onCleanup_keepsSession(w, sid) == [w EXCEPT !.cleanupTimer[sid] = FALSE]

\* the callback of the 30 s results-grace setTimeout scheduled by endGame
onCleanup(w, sid) ==
  LET w0 == [w EXCEPT !.cleanupTimer[sid] = FALSE]
  IN IF sid \in DOMAIN w.sessions THEN DeleteSession(w0, sid) ELSE w0

\* the results-grace setTimeout of session sid fires
CleanupTimeout(sid) ==
  /\ cleanupTimer[sid]
  /\ Apply(onCleanup(World, sid))
  /\ last' = Changed("cleanup", sid)
  /\ UNCHANGED conn

(* ---------------- specification ---------------- *)
Init ==
  /\ sessions = <<>>
  /\ nextSid = 0
  /\ lobbyTimer = [sid \in SessionIds |-> FALSE]
  /\ lobbyTimerInterval = [sid \in SessionIds |-> FALSE]
  /\ timerInterval = [sid \in SessionIds |-> FALSE]
  /\ questionTimer = [sid \in SessionIds |-> NoTimer]
  /\ revealTimer = [sid \in SessionIds |-> FALSE]
  /\ cleanupTimer = [sid \in SessionIds |-> FALSE]
  /\ conn = [c \in Conns \cup Arrivals |-> "open"]
  /\ stats = [c \in Conns \cup Arrivals |-> 0]
  /\ last = [op |-> "init", sid |-> 0, before |-> "none"]

\* the timer callbacks of session sid
TimerStep(sid) ==
  \/ LobbyDeadline(sid)
  \/ LobbyTick(sid)
  \/ QuestionTick(sid)
  \/ QuestionDeadline(sid)
  \/ RevealDone(sid)
  \/ CleanupTimeout(sid)

\* Spec: NumPlayers sockets play in MaxGames sessions
Next ==
  \/ \E c \in Players : Join(c, NumQuestions, MaxGames)
  \/ \E c \in Players : Ready(c)
  \/ \E c \in Answerers, answer \in Options : SubmitAnswer(c, answer, MaxAnswers)
  \/ \E c \in Players : StartGameEvent(c)
  \/ \E c \in Players : Disconnect(c)
  \/ \E c \in Players : RemovalTimeout(c)
  \/ \E sid \in SessionIds : TimerStep(sid)

Spec == Init /\ [][Next]_vars

\* SpecAdmission: NumCrowd sockets join and up to MaxSid sessions are created;
\* the sockets in Leavers also disconnect.  Games start at the lobby deadline:
\* ready and startGame events act on admission only through startGame, which
\* the lobby deadline runs too, and submitAnswer and the ticks not at all.
NextAdmission ==
  \/ \E c \in Crowd : Join(c, AdmissionQuestions, MaxSid)
  \/ \E c \in Leavers : Disconnect(c)
  \/ \E c \in Leavers : RemovalTimeout(c)
  \/ \E sid \in SessionIds : LobbyDeadline(sid)
  \/ \E sid \in SessionIds : QuestionDeadline(sid)
  \/ \E sid \in SessionIds : RevealDone(sid)
  \/ \E sid \in SessionIds : CleanupTimeout(sid)

SpecAdmission == Init /\ [][NextAdmission]_vars

\* SpecCapacity: NumConns sockets join up to CapacityGames sessions, more
\* sockets than one session holds; the sockets in Actors also send startGame
\* and disconnect
NextCapacity ==
  \/ \E c \in Conns : Join(c, AdmissionQuestions, CapacityGames)
  \/ \E c \in Actors : StartGameEvent(c)
  \/ \E c \in Actors : Disconnect(c)
  \/ \E c \in Actors : RemovalTimeout(c)
  \/ \E sid \in SessionIds : LobbyDeadline(sid)
  \/ \E sid \in SessionIds : QuestionDeadline(sid)
  \/ \E sid \in SessionIds : RevealDone(sid)
  \/ \E sid \in SessionIds : CleanupTimeout(sid)

SpecCapacity == Init /\ [][NextCapacity]_vars

\* a player who answered the first k questions of the game, all correctly
RankedPlayer(c, k) ==
  [id |-> c, score |-> k * SCORE_PER_CORRECT,
   answers |-> [q \in 1..k |-> [questionIndex |-> q - 1,
                                answer |-> questionsData[q],
                                isCorrect |-> TRUE]],
   isReady |-> FALSE, isHost |-> c = 1]

\* SpecRanking starts where the deadline of the last question of a game has
\* just fired: one session of 1 to CAPACITY players, started by its lobby
\* deadline, each player with 0 to RankMaxCorrect correct answers
InitRanking ==
  /\ \E n \in 1..CAPACITY : \E correct \in [1..n -> 0..RankMaxCorrect] :
       sessions = [sid \in {1} |->
                     [id |-> 1, status |-> "playing",
                      players |-> [i \in 1..n |-> RankedPlayer(i, correct[i])],
                      questions |-> [q \in 1..RankMaxCorrect |-> q],
                      currentQuestionIndex |-> RankMaxCorrect - 1,
                      lobbyStarts |-> 1]]
  /\ nextSid = 1
  /\ lobbyTimer = [sid \in SessionIds |-> FALSE]
  /\ lobbyTimerInterval = [sid \in SessionIds |-> FALSE]
  /\ timerInterval = [sid \in SessionIds |-> FALSE]
  /\ questionTimer = [sid \in SessionIds |-> NoTimer]
  /\ revealTimer = [sid \in SessionIds |-> sid = 1]
  /\ cleanupTimer = [sid \in SessionIds |-> FALSE]
  /\ conn = [c \in Conns \cup Arrivals |-> "open"]
  /\ stats = [c \in Conns \cup Arrivals |-> 0]
  /\ last = [op |-> "questionTimer", sid |-> 1, before |-> "playing"]

\* SpecRanking: the reveal pause of the last question ends (endGame builds the
\* results), then the results grace
NextRanking ==
  \/ \E sid \in SessionIds : RevealDone(sid)
  \/ \E sid \in SessionIds : CleanupTimeout(sid)

SpecRanking == InitRanking /\ [][NextRanking]_vars

(* ---------------- the two-player game played to its end ---------------- *)
\* the sockets of the two players: A joins first, B second
PlayerA == 1
PlayerB == 2
Pair == {PlayerA, PlayerB}

\* the draws of QUESTIONS_PER_GAME questions the game may get: rotations of
\* the bank
ScriptDraws ==
  { [i \in 1..QUESTIONS_PER_GAME |-> ((i + k - 2) % QUESTIONS_PER_GAME) + 1] :
      k \in 1..NumDraws }

\* player c of session s has an answer recorded for question index idx
HasAnswered(s, c, idx) ==
  \E k \in 1..Len(s.players[PlayerIndex(s, c)].answers) :
    s.players[PlayerIndex(s, c)].answers[k].questionIndex = idx

\* the join event of A, who creates the session, and of B while A is in it
ScriptJoin(c) ==
  /\ conn[c] = "open"
  /\ FindSessionOf(World, c) = 0
  /\ IF c = PlayerA THEN nextSid = 0 ELSE FindSessionOf(World, PlayerA) # 0
  /\ \E draw \in ScriptDraws :
       LET w == join(World, c, draw)
       IN /\ Apply(w)
          /\ last' = Changed("join", FindSessionOf(w, c))
  /\ UNCHANGED conn

\* the ready event of a player who is in the lobby and has not sent it yet
ScriptReady(c) ==
  /\ FindSessionOf(World, c) # 0
  /\ LET s == sessions[FindSessionOf(World, c)]
     IN s.status = "lobby" /\ ~s.players[PlayerIndex(s, c)].isReady
  /\ Ready(c)

\* the one submitAnswer of a player for the question awaiting answers: A
\* sends the correct option, B a wrong one
ScriptAnswer(c) ==
  /\ FindSessionOf(World, c) # 0
  /\ LET sid == FindSessionOf(World, c)
         s == sessions[sid]
     IN /\ s.status = "playing"
        /\ questionTimer[sid].index = s.currentQuestionIndex
        /\ ~HasAnswered(s, c, s.currentQuestionIndex)
        /\ \E answer \in Options :
             /\ (c = PlayerA) <=> (answer = CorrectOptionAt(s, s.currentQuestionIndex))
             /\ SubmitAnswer(c, answer, QUESTIONS_PER_GAME)

\* the lobby deadline, which both ready events precede
ScriptLobbyDeadline(sid) ==
  /\ sid \in DOMAIN sessions
  /\ sessions[sid].status # "lobby"
  /\ LobbyDeadline(sid)

\* the question deadline, which the answers of both players to that question
\* precede
ScriptQuestionDeadline(sid) ==
  /\ sid \in DOMAIN sessions
  /\ \A c \in Pair :
       /\ HasPlayer(sessions[sid], c)
       /\ HasAnswered(sessions[sid], c, questionTimer[sid].index)
  /\ QuestionDeadline(sid)

\* SpecEndToEnd: A and B join, send ready, answer every question once, and
\* every timer fires
NextEndToEnd ==
  \/ \E c \in Pair : ScriptJoin(c)
  \/ \E c \in Pair : ScriptReady(c)
  \/ \E c \in Pair : ScriptAnswer(c)
  \/ \E sid \in SessionIds : ScriptLobbyDeadline(sid)
  \/ \E sid \in SessionIds : LobbyTick(sid)
  \/ \E sid \in SessionIds : QuestionTick(sid)
  \/ \E sid \in SessionIds : ScriptQuestionDeadline(sid)
  \/ \E sid \in SessionIds : RevealDone(sid)
  \/ \E sid \in SessionIds : CleanupTimeout(sid)

\* the players do send their events and the event loop runs every timer
\* callback that is due
SpecEndToEnd ==
  /\ Init
  /\ [][NextEndToEnd]_vars
  /\ \A c \in Pair :
       WF_vars(ScriptJoin(c)) /\ WF_vars(ScriptReady(c)) /\ WF_vars(ScriptAnswer(c))
  /\ \A sid \in SessionIds :
       /\ WF_vars(ScriptLobbyDeadline(sid))
       /\ WF_vars(ScriptQuestionDeadline(sid))
       /\ WF_vars(RevealDone(sid))
       /\ WF_vars(CleanupTimeout(sid))

\* SpecGrace: NumGuests sockets join up to GraceGames sessions, which are
\* played to their end; the sockets in Actors also send startGame and
\* disconnect.  The event loop runs the results-grace callback once it is due:
\* that timeout is never cleared.
NextGrace ==
  \/ \E c \in Guests : Join(c, AdmissionQuestions, GraceGames)
  \/ \E c \in Actors : StartGameEvent(c)
  \/ \E c \in Actors : Disconnect(c)
  \/ \E c \in Actors : RemovalTimeout(c)
  \/ \E sid \in SessionIds : LobbyDeadline(sid)
  \/ \E sid \in SessionIds : QuestionDeadline(sid)
  \/ \E sid \in SessionIds : RevealDone(sid)
  \/ \E sid \in SessionIds : CleanupTimeout(sid)

SpecGrace ==
  /\ Init
  /\ [][NextGrace]_vars
  /\ \A sid \in SessionIds : WF_vars(CleanupTimeout(sid))

\* SpecLobby: NumGuests sockets join up to LobbyGames sessions and send ready;
\* the sockets in Leavers also disconnect.  The lobby deadline of a session is
\* a setTimeout of the event loop: once armed it fires unless it is cleared.
NextLobby ==
  \/ \E c \in Guests : Join(c, AdmissionQuestions, LobbyGames)
  \/ \E c \in Guests : Ready(c)
  \/ \E c \in Leavers : Disconnect(c)
  \/ \E c \in Leavers : RemovalTimeout(c)
  \/ \E sid \in SessionIds : LobbyDeadline(sid)
  \/ \E sid \in SessionIds : QuestionDeadline(sid)
  \/ \E sid \in SessionIds : RevealDone(sid)
  \/ \E sid \in SessionIds : CleanupTimeout(sid)

SpecLobby ==
  /\ Init
  /\ [][NextLobby]_vars
  /\ \A sid \in SessionIds : WF_vars(LobbyDeadline(sid))

\* SpecPlacement: NumArrivals sockets that are in no session join, each once,
\* more than one session holds, up to PlacementGames sessions; the sockets in
\* Leavers also disconnect, so that a full session gets a free seat while a
\* later session is in lobby.  Sessions leave lobby at their lobby deadline.
NextPlacement ==
  \/ \E c \in Arrivals : JoinNew(c, AdmissionQuestions, PlacementGames)
  \/ \E c \in Leavers : Disconnect(c)
  \/ \E c \in Leavers : RemovalTimeout(c)
  \/ \E sid \in SessionIds : LobbyDeadline(sid)

SpecPlacement == Init /\ [][NextPlacement]_vars

\* the ping handler's networkMonitor.handlePong for socket c: the latency it
\* records makes latency the socket's new averageLatency
NetworkStats(c, latency) ==
  /\ conn[c] = "open"
  /\ stats[c] # latency
  /\ stats' = [stats EXCEPT ![c] = latency]
  /\ UNCHANGED <<sessions, nextSid, timerVars, conn, last>>

\* the state after the sockets 1..n joined one session, in that order
InitTimer ==
  /\ \E n \in Timed : \E draw \in selectRandomQuestions(NumQuestions) :
       sessions = [sid \in {1} |->
                     [id |-> 1, status |-> "lobby",
                      players |-> [i \in 1..n |-> NewPlayer(i, i = 1)],
                      questions |-> draw, currentQuestionIndex |-> -1,
                      lobbyStarts |-> 1]]
  /\ nextSid = 1
  /\ lobbyTimer = [sid \in SessionIds |-> sid = 1]
  /\ lobbyTimerInterval = [sid \in SessionIds |-> sid = 1]
  /\ timerInterval = [sid \in SessionIds |-> FALSE]
  /\ questionTimer = [sid \in SessionIds |-> NoTimer]
  /\ revealTimer = [sid \in SessionIds |-> FALSE]
  /\ cleanupTimer = [sid \in SessionIds |-> FALSE]
  /\ conn = [c \in Conns \cup Arrivals |-> "open"]
  /\ stats = [c \in Conns \cup Arrivals |-> 0]
  /\ last = [op |-> "join", sid |-> 1, before |-> "lobby"]

\* SpecTimer: a game of 1..NumTimed players runs from the lobby deadline to its
\* end while the measured latencies of the players change
NextTimer ==
  \/ \E c \in Timed, latency \in Latencies :
       FindSessionOf(World, c) # 0 /\ NetworkStats(c, latency)
  \/ \E sid \in SessionIds : LobbyDeadline(sid)
  \/ \E sid \in SessionIds : QuestionDeadline(sid)
  \/ \E sid \in SessionIds : RevealDone(sid)
  \/ \E sid \in SessionIds : CleanupTimeout(sid)

SpecTimer == InitTimer /\ [][NextTimer]_vars

\* SpecRemoval: the steps of SpecLobby; the removal that a disconnect schedules
\* is a setTimeout nothing clears, so it fires
SpecRemoval ==
  /\ Init
  /\ [][NextLobby]_vars
  /\ \A c \in Leavers : WF_vars(RemovalTimeout(c))

(* ======================= claims ======================= *)
LiveSessions ==
  { sid \in DOMAIN sessions : sessions[sid].status \in {"lobby", "playing"} }

AllReady(s) == \A k \in 1..Len(s.players) : s.players[k].isReady

\* a message of the given type to room sid carrying question number n
HasQuestion(msgs, sid, n) ==
  \E k \in 1..Len(msgs) :
    msgs[k].type = "question" /\ msgs[k].room = sid /\ msgs[k].questionNumber = n

\* C1: the number of sessions in the registry whose status is lobby or
\* playing never exceeds MAX_SESSIONS, whatever joins, disconnects and timer
\* firings happened.
C1_SessionLimit == Cardinality(LiveSessions) <= MAX_SESSIONS

\* C1 witness: a join was just refused (it reached no session) while
\* MAX_SESSIONS sessions are live.
C1_Witness ==
  /\ last.op = "join"
  /\ last.sid = 0
  /\ Cardinality(LiveSessions) = MAX_SESSIONS

\* C2: every session in the registry has between 0 and CAPACITY players.
C2_PlayerLimit ==
  \A sid \in DOMAIN sessions :
    Len(sessions[sid].players) >= 0 /\ Len(sessions[sid].players) <= CAPACITY

\* C2 witness: a join just created a session while another session, still in
\* lobby, holds CAPACITY players: the joiner was not appended to the full one.
C2_Witness ==
  /\ last.op = "join"
  /\ last.before = "none"
  /\ last.sid \in DOMAIN sessions
  /\ \E other \in DOMAIN sessions :
       /\ other # last.sid
       /\ sessions[other].status = "lobby"
       /\ Len(sessions[other].players) = CAPACITY

\* C3: for every player and every question index the answers list holds at
\* most one entry with that questionIndex.
C3_AtMostOneAnswer ==
  \A sid \in DOMAIN sessions :
    \A i \in 1..Len(sessions[sid].players) :
      LET a == sessions[sid].players[i].answers
      IN \A q \in 0..(NumQuestions - 1) :
           Cardinality({ k \in 1..Len(a) : a[k].questionIndex = q }) <= 1

\* the answer of the current question is being revealed: its deadline has
\* fired, the 3 s pause is pending and no new question has started
Revealing(sid) ==
  /\ sid \in DOMAIN sessions
  /\ sessions[sid].status = "playing"
  /\ revealTimer[sid]
  /\ questionTimer[sid] = NoTimer

\* C4: a submitAnswer handled while the answer of the current question is
\* being revealed leaves the players of the submitter's session (their answers
\* and scores) unchanged.
C4_LateAnswerRejected ==
  [][\A c \in Answerers, answer \in Options :
       (SubmitAnswer(c, answer, MaxAnswers) /\ Revealing(FindSessionOf(World, c)))
         => sessions' = sessions]_vars

\* C5: the status of a session only ever changes lobby -> playing and
\* playing -> ended.
C5_StatusOrder ==
  [][\A sid \in (DOMAIN sessions) \cap (DOMAIN sessions') :
       \/ sessions'[sid].status = sessions[sid].status
       \/ sessions[sid].status = "lobby" /\ sessions'[sid].status = "playing"
       \/ sessions[sid].status = "playing" /\ sessions'[sid].status = "ended"]_vars

\* C6: once a session is playing its currentQuestionIndex never decreases.
C6_IndexMonotone ==
  [][\A sid \in (DOMAIN sessions) \cap (DOMAIN sessions') :
       sessions[sid].status = "playing"
         => sessions'[sid].currentQuestionIndex >= sessions[sid].currentQuestionIndex]_vars

\* C7: a session with exactly one player changes from lobby to playing only
\* in the step in which its lobby deadline timer fires.
C7_LobbyFloor ==
  [][\A sid \in (DOMAIN sessions) \cap (DOMAIN sessions') :
       (/\ sessions[sid].status = "lobby"
        /\ Len(sessions[sid].players) = 1
        /\ sessions'[sid].status = "playing")
         => (lobbyTimer[sid] /\ ~lobbyTimer'[sid])]_vars

\* C8: in a lobby session with two or more players whose lobby deadline is
\* still pending, the ready event after which every player is ready makes the
\* session playing and starts question 1 in that same step, with the lobby
\* deadline still pending.
C8_EarlyStart ==
  [][\A c \in Players :
       LET sid == FindSessionOf(World, c)
       IN (/\ Ready(c)
           /\ sid # 0
           /\ sessions[sid].status = "lobby"
           /\ Len(sessions[sid].players) >= 2
           /\ lobbyTimer[sid]
           /\ \A k \in 1..Len(sessions[sid].players) :
                sessions[sid].players[k].isReady \/ sessions[sid].players[k].id = c)
          => /\ sessions'[sid].status = "playing"
             /\ sessions'[sid].currentQuestionIndex = 0
             /\ questionTimer'[sid].index = 0
             /\ lobbyTimer'[sid]
             /\ HasQuestion(ready(World, c).sent, sid, 1)]_vars

\* C8 witness: a ready event just took a lobby session of two or more players,
\* all ready, to playing at its first question, the lobby deadline pending.
C8_Witness ==
  /\ last.op = "ready"
  /\ last.before = "lobby"
  /\ last.sid \in DOMAIN sessions
  /\ Len(sessions[last.sid].players) >= 2
  /\ AllReady(sessions[last.sid])
  /\ sessions[last.sid].status = "playing"
  /\ sessions[last.sid].currentQuestionIndex = 0
  /\ lobbyTimer[last.sid]

\* C9: when the lobby deadline timer of a session still in lobby fires and the
\* session has at least one player, the session becomes playing and its first
\* question is broadcast in that step.
C9_DeadlineStarts ==
  [][\A sid \in SessionIds :
       (/\ LobbyDeadline(sid)
        /\ sid \in DOMAIN sessions
        /\ sessions[sid].status = "lobby"
        /\ Len(sessions[sid].players) >= 1)
         => /\ sid \in DOMAIN sessions'
            /\ sessions'[sid].status = "playing"
            /\ sessions'[sid].currentQuestionIndex = 0
            /\ questionTimer'[sid].index = 0
            /\ HasQuestion(onLobbyTimer(World, sid).sent, sid, 1)]_vars

\* C9 witness: the lobby deadline just fired on a lobby session whose only
\* player is not ready, and the session is playing its first question.
C9_Witness ==
  /\ last.op = "lobbyTimer"
  /\ last.before = "lobby"
  /\ last.sid \in DOMAIN sessions
  /\ Len(sessions[last.sid].players) = 1
  /\ ~sessions[last.sid].players[1].isReady
  /\ sessions[last.sid].status = "playing"
  /\ sessions[last.sid].currentQuestionIndex = 0

\* C10: between any two handlers every session in the registry has at least
\* one player, so the handler that removes a session's last player also
\* removes the session from the registry.
C10_NoEmptySession ==
  \A sid \in DOMAIN sessions : Len(sessions[sid].players) >= 1

\* C10 witness: the removal callback just took the last player out of a
\* session that had ended, and the session is gone from the registry.
C10_Witness ==
  /\ last.op = "removal"
  /\ last.before = "ended"
  /\ last.sid \notin DOMAIN sessions

\* no socket is a player at two places of the registry reg
NoDoubleSeat(reg) ==
  \A s1, s2 \in DOMAIN reg :
    \A i \in 1..Len(reg[s1].players), j \in 1..Len(reg[s2].players) :
      (s1 # s2 \/ i # j) => reg[s1].players[i].id # reg[s2].players[j].id

\* the handler result w leaves the registry, the session ids handed out and
\* every timer as they are
Untouched(w) == [w EXCEPT !.sent = <<>>] = World

\* C11: in every state each socket is a player at most once across all the
\* sessions of the registry, and the join handler run for a connected socket
\* that is already a player leaves the registry (sessions, players), the
\* session ids handed out and every timer as they are.
C11_IdempotentJoin ==
  /\ NoDoubleSeat(sessions)
  /\ \A c \in Conns :
       (conn[c] = "open" /\ FindSessionOf(World, c) # 0)
         => \A draw \in selectRandomQuestions(AdmissionQuestions) :
              Untouched(join(World, c, draw))

\* C11 witness: a join was just handled from a socket that is a player of a
\* session already playing (a new player is only ever put into a lobby), while
\* a second session exists.
C11_Witness ==
  /\ last.op = "join"
  /\ last.before = "playing"
  /\ last.sid \in DOMAIN sessions
  /\ Cardinality(DOMAIN sessions) = 2

\* C12: when MAX_SESSIONS sessions are in lobby or playing and none of them is
\* a lobby with fewer than CAPACITY players, the join handler run for a
\* connected socket that is in no session emits the SERVER_BUSY error to that
\* socket and nothing else, and leaves the registry, every session's players
\* and every timer as they are.
C12_ServerBusy ==
  \A c \in Conns :
    (/\ conn[c] = "open"
     /\ FindSessionOf(World, c) = 0
     /\ Cardinality(LiveSessions) = MAX_SESSIONS
     /\ FirstOpenLobby(World) = 0)
      => \A draw \in selectRandomQuestions(AdmissionQuestions) :
           /\ Untouched(join(World, c, draw))
           /\ join(World, c, draw).sent = <<Msg("error", 0, c, "SERVER_BUSY", 0, 0, -1)>>

\* C12 witness: a join was just refused while MAX_SESSIONS sessions are in the
\* registry, all of them playing.
C12_Witness ==
  /\ last.op = "join"
  /\ last.sid = 0
  /\ Cardinality(DOMAIN sessions) = MAX_SESSIONS
  /\ \A sid \in DOMAIN sessions : sessions[sid].status = "playing"

\* C13: the join handler run for a connected socket that is in no session
\* refuses the socket only when MAX_SESSIONS sessions are in lobby or playing;
\* when no lobby has room and fewer than MAX_SESSIONS sessions are in lobby or
\* playing (ended sessions not counted) it creates a new lobby session and
\* puts the socket in it.
C13_RefusedOnlyWhenFull ==
  \A c \in Conns :
    (conn[c] = "open" /\ FindSessionOf(World, c) = 0)
      => \A draw \in selectRandomQuestions(AdmissionQuestions) :
           LET w == join(World, c, draw)
           IN /\ FindSessionOf(w, c) = 0 => Cardinality(LiveSessions) = MAX_SESSIONS
              /\ (FirstOpenLobby(World) = 0 /\ Cardinality(LiveSessions) < MAX_SESSIONS)
                   => /\ w.nextSid = nextSid + 1
                      /\ w.nextSid \notin DOMAIN sessions
                      /\ FindSessionOf(w, c) = w.nextSid
                      /\ w.sessions[w.nextSid].status = "lobby"

\* the results list of the game-ended message among msgs, <<>> when none
GameEndedResults(msgs) ==
  LET K == { k \in 1..Len(msgs) : msgs[k].type = "game-ended" }
  IN IF K = {} THEN <<>> ELSE msgs[Min(K)].results

\* the list r holds every player of players once, with the player's score, in
\* descending order of score, each with rank 1 + the number of players whose
\* score is strictly higher
StandardRanking(r, players) ==
  /\ Len(r) = Len(players)
  /\ \A i \in 1..Len(players) :
       Cardinality({ k \in 1..Len(r) :
                      r[k].id = players[i].id /\ r[k].score = players[i].score }) = 1
  /\ \A k \in 1..(Len(r) - 1) : r[k].score >= r[k + 1].score
  /\ \A k \in 1..Len(r) :
       r[k].rank = 1 + Cardinality({ j \in 1..Len(r) : r[j].score > r[k].score })

\* C14: the results list that endGame broadcasts in game-ended is sorted by
\* score descending and gives every player the standard competition rank,
\* rank = 1 + the number of players with a strictly higher score.
C14_CompetitionRanking ==
  [][\A sid \in SessionIds :
       (/\ RevealDone(sid)
        /\ StatusOf(World, sid) = "playing"
        /\ sessions'[sid].status = "ended")
         => StandardRanking(GameEndedResults(onRevealDone(World, sid).sent),
                            sessions[sid].players)]_vars

\* C14 witness: a game of four players who joined with scores 10, 30, 0, 30
\* has just ended.
C14_Witness ==
  /\ last.op = "revealDone"
  /\ 1 \in DOMAIN sessions
  /\ sessions[1].status = "ended"
  /\ Len(sessions[1].players) = 4
  /\ [i \in 1..4 |-> sessions[1].players[i].score] = <<10, 30, 0, 30>>
  /\ [i \in 1..4 |-> PlayerResults(sessions[1].players)[i].rank] = <<1, 1, 3, 4>>

\* in registry reg every player's score is SCORE_PER_CORRECT times the number
\* of the player's answers with isCorrect, and an answer has isCorrect exactly
\* when its option is the correctOption of the question at its questionIndex
ScoresMatchAnswers(reg) ==
  \A sid \in DOMAIN reg :
    \A i \in 1..Len(reg[sid].players) :
      LET p == reg[sid].players[i]
      IN /\ p.score = SCORE_PER_CORRECT * CorrectCount(p.answers)
         /\ \A k \in 1..Len(p.answers) :
              p.answers[k].isCorrect
                <=> (p.answers[k].answer
                       = CorrectOptionAt(reg[sid], p.answers[k].questionIndex))

\* C15: after every step (the registry starts empty) every player's score is
\* 10 times the number of the player's answers with isCorrect = true,
\* isCorrect being true exactly when the submitted option is the correctOption
\* of the question that was current when the answer was recorded; and no step
\* lowers the score of a player who stays in the session.
C15_ScoreMatchesAnswers ==
  [][/\ ScoresMatchAnswers(sessions')
     /\ \A sid \in (DOMAIN sessions) \cap (DOMAIN sessions') :
          \A i \in 1..Len(sessions[sid].players), j \in 1..Len(sessions'[sid].players) :
            sessions[sid].players[i].id = sessions'[sid].players[j].id
              => sessions'[sid].players[j].score >= sessions[sid].players[i].score]_vars

\* C15 witness: a submitAnswer was just handled and a player holds one correct
\* and one wrong answer, with score 10.
C15_Witness ==
  /\ last.op = "submitAnswer"
  /\ last.sid \in DOMAIN sessions
  /\ \E i \in 1..Len(sessions[last.sid].players) :
       LET p == sessions[last.sid].players[i]
       IN /\ Len(p.answers) = 2
          /\ CorrectCount(p.answers) = 1
          /\ p.score = SCORE_PER_CORRECT

\* the results of the two-player game: A first with every question correct
ExpectedResults ==
  <<[id |-> PlayerA, score |-> QUESTIONS_PER_GAME * SCORE_PER_CORRECT,
     correctAnswers |-> QUESTIONS_PER_GAME, rank |-> 1],
    [id |-> PlayerB, score |-> 0, correctAnswers |-> 0, rank |-> 2]>>

\* a session has ended
SomeEnded == \E sid \in DOMAIN sessions : sessions[sid].status = "ended"

\* C16: when A joins (creating the session, as host), B joins the same
\* session, both send ready before the lobby deadline, each answers every one
\* of the QUESTIONS_PER_GAME questions once (A correctly, B wrongly) and the
\* timers fire: A is the host and B is not, the game eventually ends, the
\* step that ends it broadcasts game-ended with A at rank 1 and score 100 and
\* B at rank 2 and score 0, and the ended session is eventually removed from
\* the registry by the results-grace timer.
C16_EndToEnd ==
  /\ [](\A sid \in DOMAIN sessions :
          /\ sessions[sid].players[1].id = PlayerA
          /\ \A i \in 1..Len(sessions[sid].players) :
               sessions[sid].players[i].isHost <=> (i = 1))
  /\ <>SomeEnded
  /\ [][\A sid \in SessionIds :
          (RevealDone(sid) /\ StatusOf(World, sid) = "playing"
             /\ sessions'[sid].status = "ended")
            => GameEndedResults(onRevealDone(World, sid).sent) = ExpectedResults]_vars
  /\ SomeEnded ~> (sessions = <<>> /\ last.op = "cleanup" /\ last.before = "ended")

\* C16 witness: the reveal pause of the last question just ended the game;
\* A and B hold one answer for each question, A with score 100 and B with 0.
C16_Witness ==
  /\ last.op = "revealDone"
  /\ last.sid \in DOMAIN sessions
  /\ sessions[last.sid].status = "ended"
  /\ Len(sessions[last.sid].questions) = QUESTIONS_PER_GAME
  /\ Len(sessions[last.sid].players) = 2
  /\ \A i \in 1..2 :
       /\ Len(sessions[last.sid].players[i].answers) = QUESTIONS_PER_GAME
       /\ \A q \in 0..(QUESTIONS_PER_GAME - 1) :
            HasAnswered(sessions[last.sid], sessions[last.sid].players[i].id, q)
  /\ sessions[last.sid].players[1].score = QUESTIONS_PER_GAME * SCORE_PER_CORRECT
  /\ sessions[last.sid].players[2].score = 0

\* C17: the ready event that takes a lobby session to playing (every player
\* ready) leaves no lobby deadline pending for that session, so no lobby
\* deadline callback can later run startGame on it.
C17_DeadlineCancelled ==
  [][\A c \in Players :
       LET sid == FindSessionOf(World, c)
       IN (/\ Ready(c)
           /\ sid # 0
           /\ sessions[sid].status = "lobby"
           /\ sessions'[sid].status = "playing")
            => ~lobbyTimer'[sid]]_vars

\* in coordinator state w no timer of session sid is pending or running
NoTimerOf(w, sid) ==
  /\ ~w.lobbyTimer[sid]
  /\ ~w.lobbyTimerInterval[sid]
  /\ ~w.timerInterval[sid]
  /\ w.questionTimer[sid] = NoTimer
  /\ ~w.revealTimer[sid]
  /\ ~w.cleanupTimer[sid]

\* C18: the removal that takes the last player out of a session, whatever the
\* session's status, deletes the session and leaves none of its timers (lobby
\* deadline, lobby tick, question tick, question deadline, reveal pause,
\* results grace) pending.
C18_TimersTornDown ==
  [][\A c \in Players :
       LET sid == FindSessionOf(World, c)
       IN (/\ RemovalTimeout(c)
           /\ sid # 0
           /\ Len(sessions[sid].players) = 1)
            => (sid \notin DOMAIN sessions'
                /\ NoTimerOf(removePlayer(World, c), sid))]_vars

\* session sid is playing a question that awaits answers: its deadline timer
\* is pending
Awaiting(sid) ==
  /\ sid \in DOMAIN sessions
  /\ sessions[sid].status = "playing"
  /\ questionTimer[sid] # NoTimer
  /\ questionTimer[sid].index = sessions[sid].currentQuestionIndex

\* none of the messages msgs carries a correctOption
NoCorrectOption(msgs) == \A k \in 1..Len(msgs) : msgs[k].correctOption = -1

\* C19: the question broadcast that nextQuestion builds carries no
\* correctOption, and while the current question of a session awaits answers
\* neither the join handler run for one of its players (duplicate join) nor
\* the removal of one of its players emits a message carrying a correctOption.
C19_NoAnswerLeak ==
  \A sid \in DOMAIN sessions :
    /\ NoCorrectOption(nextQuestion(World, sid).sent)
    /\ Awaiting(sid) =>
         \A c \in Conns :
           HasPlayer(sessions[sid], c) =>
             /\ conn[c] = "open" =>
                  \A draw \in selectRandomQuestions(NumQuestions) :
                    NoCorrectOption(join(World, c, draw).sent)
             /\ conn[c] = "closing" => NoCorrectOption(removePlayer(World, c).sent)

\* C20: every session that reaches status ended is eventually absent from
\* the registry; an ended session leaves the registry only in the step of its
\* results-grace timer or in the removal of its last player; and the
\* results-grace timer of a session deletes that session and no other.
C20_EndedIsDeleted ==
  /\ \A sid \in SessionIds :
       (sid \in DOMAIN sessions /\ sessions[sid].status = "ended")
         ~> (sid \notin DOMAIN sessions)
  /\ [][\A sid \in SessionIds :
          /\ (sid \in DOMAIN sessions /\ sessions[sid].status = "ended"
                /\ sid \notin DOMAIN sessions')
               => \/ CleanupTimeout(sid)
                  \/ last'.op = "removal" /\ Len(sessions[sid].players) = 1
          /\ CleanupTimeout(sid)
               => /\ DOMAIN sessions' = (DOMAIN sessions) \ {sid}
                  /\ \A other \in DOMAIN sessions' : sessions'[other] = sessions[other]]_vars

\* C20 witness: the results-grace timer of an ended session just fired and
\* deleted it, while another session is in the registry.
C20_Witness ==
  /\ last.op = "cleanup"
  /\ last.before = "ended"
  /\ last.sid \notin DOMAIN sessions
  /\ DOMAIN sessions # {}

\* C21: the handling of a quit event from a connected socket that is a player
\* takes that player out of its session, and deletes the session when it was
\* the last player, as the removal after a disconnect does.
C21_QuitRemoves ==
  \A c \in Conns :
    (conn[c] = "open" /\ FindSessionOf(World, c) # 0)
      => /\ FindSessionOf(onQuit(World, c), c) = 0
         /\ onQuit(World, c).sessions = removePlayer(World, c).sessions

\* the number of players of session s with isHost
HostCount(s) == Cardinality({ i \in 1..Len(s.players) : s.players[i].isHost })

\* C22: after every step (the registry starts empty) each session has at most
\* one player with isHost; a player who was in the session before the step
\* keeps its isHost; and a player the step added is host exactly when the step
\* created the session, so nobody becomes host after the host has left.
C22_HostFixed ==
  [][\A sid \in DOMAIN sessions' :
       /\ HostCount(sessions'[sid]) <= 1
       /\ \A j \in 1..Len(sessions'[sid].players) :
            LET p == sessions'[sid].players[j]
            IN IF sid \in DOMAIN sessions /\ HasPlayer(sessions[sid], p.id)
                 THEN p.isHost
                        = sessions[sid].players[PlayerIndex(sessions[sid], p.id)].isHost
                 ELSE p.isHost <=> (sid \notin DOMAIN sessions)]_vars

\* C22 witness: a socket just joined a lobby whose host had left: the session
\* has two or more players and none of them is host.
C22_Witness ==
  /\ last.op = "join"
  /\ last.before = "lobby"
  /\ last.sid \in DOMAIN sessions
  /\ Len(sessions[last.sid].players) >= 2
  /\ HostCount(sessions[last.sid]) = 0

\* C23: whenever a session changes from lobby to playing, every player of the
\* session has isReady.
C23_StartsAllReady ==
  [][\A sid \in (DOMAIN sessions) \cap (DOMAIN sessions') :
       (sessions[sid].status = "lobby" /\ sessions'[sid].status = "playing")
         => AllReady(sessions'[sid])]_vars

\* the question broadcasts among msgs to room sid keep the order of the cycle
\* in the state they are sent from: question 1 only to a session still in
\* lobby, question n >= 2 only when the reveal pause of question n - 1 is over
\* (advance tells that the handler is the end of that pause)
CycleInOrder(msgs, sid, advance) ==
  \A k \in 1..Len(msgs) :
    (msgs[k].type = "question" /\ msgs[k].room = sid)
      => \/ /\ msgs[k].questionNumber = 1
            /\ ~advance
            /\ StatusOf(World, sid) = "lobby"
         \/ /\ msgs[k].questionNumber >= 2
            /\ advance
            /\ StatusOf(World, sid) = "playing"
            /\ questionTimer[sid] = NoTimer
            /\ msgs[k].questionNumber = sessions[sid].currentQuestionIndex + 2

\* C24: the question broadcasts of a session follow the cycle question(1),
\* question-ended(1), question(2), ...: whichever handler runs next (ready,
\* startGame, the lobby deadline, the end of a reveal pause), it broadcasts
\* question 1 only to a session leaving lobby and question n >= 2 only at the
\* end of the reveal pause of question n - 1, so no question is repeated,
\* skipped or started early.
C24_CycleInOrder ==
  \A sid \in DOMAIN sessions :
    /\ \A c \in Conns :
         (conn[c] = "open" /\ HasPlayer(sessions[sid], c))
           => /\ CycleInOrder(ready(World, c).sent, sid, FALSE)
              /\ CycleInOrder(onStartGame(World, c).sent, sid, FALSE)
    /\ lobbyTimer[sid] => CycleInOrder(onLobbyTimer(World, sid).sent, sid, FALSE)
    /\ revealTimer[sid] => CycleInOrder(onRevealDone(World, sid).sent, sid, TRUE)

\* C25: between handlers the currentQuestionIndex of every session is within
\* -1..questions.length; it equals questions.length exactly when the status is
\* 'ended' and -1 exactly when the status is 'lobby'.
C25_IndexRange ==
  \A sid \in DOMAIN sessions :
    LET s == sessions[sid]
    IN /\ s.currentQuestionIndex \in -1..Len(s.questions)
       /\ (s.currentQuestionIndex = Len(s.questions)) <=> (s.status = "ended")
       /\ (s.currentQuestionIndex = -1) <=> (s.status = "lobby")

\* a game ran through all its questions and ended, and a session that had
\* ended was started again
C25_Witness ==
  /\ last.sid \in DOMAIN sessions
  /\ last.op = "startGame" /\ last.before = "ended"
  /\ sessions[last.sid].status = "playing"
  /\ sessions[last.sid].currentQuestionIndex = 0
  /\ Len(sessions[last.sid].questions) = NumQuestions

\* C26: while a session is playing at most one question-cycle timer is pending:
\* the deadline of the current question or the advance that follows its
\* reveal, never both, so that two callbacks leading to nextQuestion are never
\* pending together.
C26_OneCycleTimer ==
  \A sid \in DOMAIN sessions :
    sessions[sid].status = "playing"
      => ~(questionTimer[sid] # NoTimer /\ revealTimer[sid])

\* C27: between handlers no session is in lobby with two or more players who
\* are all ready: when the last unready player of a lobby is removed and two
\* or more ready players remain, the game starts.
C27_NoReadyLobby ==
  \A sid \in DOMAIN sessions :
    ~(/\ sessions[sid].status = "lobby"
      /\ Len(sessions[sid].players) >= 2
      /\ AllReady(sessions[sid]))

\* C30: no lobby stalls: a session in lobby is eventually playing or deleted,
\* given that armed timers fire.
C30_LobbyLeaves ==
  \A sid \in 1..LobbyGames :
    (sid \in DOMAIN sessions /\ sessions[sid].status = "lobby")
      ~> (sid \notin DOMAIN sessions \/ sessions[sid].status # "lobby")

\* C30 witness: the lobby deadline just fired on a lobby session of several
\* players who had not all readied, and the session is playing.
C30_Witness ==
  /\ last.op = "lobbyTimer"
  /\ last.before = "lobby"
  /\ last.sid \in DOMAIN sessions
  /\ Len(sessions[last.sid].players) >= 2
  /\ ~AllReady(sessions[last.sid])
  /\ sessions[last.sid].status = "playing"

\* every gameState snapshot among the messages a handler sent reports the
\* status its session has when the handler returns to the event loop
SnapshotsTrue(w) ==
  \A k \in 1..Len(w.sent) :
    (w.sent[k].type = "gameState" /\ w.sent[k].room \in DOMAIN w.sessions)
      => w.sent[k].gameState = w.sessions[w.sent[k].room].status

\* C28: every gameState snapshot the server sends reports the actual status of
\* the session: whichever handler runs next (join, ready, startGame, the
\* removal of a player, the lobby deadline), its snapshots carry the status the
\* session then has; in particular the snapshot after a ready never says lobby
\* for a session that is playing.
C28_SnapshotStatus ==
  /\ \A c \in Conns :
       /\ conn[c] = "open"
            => /\ SnapshotsTrue(ready(World, c))
               /\ SnapshotsTrue(onStartGame(World, c))
               /\ \A draw \in selectRandomQuestions(NumQuestions) :
                    SnapshotsTrue(join(World, c, draw))
       /\ conn[c] = "closing" => SnapshotsTrue(removePlayer(World, c))
  /\ \A sid \in SessionIds :
       lobbyTimer[sid] => SnapshotsTrue(onLobbyTimer(World, sid))

\* the number of game-ended broadcasts to room sid among msgs
GameEndedCount(msgs, sid) ==
  Cardinality({ k \in 1..Len(msgs) : msgs[k].type = "game-ended" /\ msgs[k].room = sid })

\* the list r has one entry for each player of players, with the number of the
\* player's answers that are correct
ResultsPerPlayer(r, players) ==
  /\ Len(r) = Len(players)
  /\ \A i \in 1..Len(players) :
       Cardinality({ k \in 1..Len(r) :
                      /\ r[k].id = players[i].id
                      /\ r[k].correctAnswers = CorrectCount(players[i].answers) }) = 1

\* no handler but the end of a reveal pause broadcasts game-ended, and a
\* session that has ended keeps its results-grace timer pending
OnlyAdvanceEnds ==
  /\ \A sid \in DOMAIN sessions : sessions[sid].status = "ended" => cleanupTimer[sid]
  /\ \A sid \in SessionIds :
       /\ \A c \in Conns :
            /\ GameEndedCount(ready(World, c).sent, sid) = 0
            /\ GameEndedCount(onStartGame(World, c).sent, sid) = 0
            /\ GameEndedCount(removePlayer(World, c).sent, sid) = 0
            /\ \A answer \in Options :
                 GameEndedCount(submitAnswer(World, c, answer).sent, sid) = 0
            /\ \A draw \in selectRandomQuestions(NumQuestions) :
                 GameEndedCount(join(World, c, draw).sent, sid) = 0
       /\ GameEndedCount(onLobbyTimer(World, sid).sent, sid) = 0
       /\ questionTimer[sid] # NoTimer
            => GameEndedCount(onQuestionTimer(World, sid).sent, sid) = 0
       /\ GameEndedCount(onCleanup(World, sid).sent, sid) = 0

\* C29: game-ended is broadcast at most once per session, in the step that
\* makes the session ended: only the end of a reveal pause broadcasts it, once,
\* exactly when it takes the session from playing to ended, to a session whose
\* results-grace timer is not pending (it has not ended before); and its
\* results hold one entry per player of the session with the number of that
\* player's correct answers.
C29_GameEndedOnce ==
  /\ []OnlyAdvanceEnds
  /\ [][\A sid \in SessionIds :
          RevealDone(sid)
            => LET w == onRevealDone(World, sid)
                   n == GameEndedCount(w.sent, sid)
               IN /\ n <= 1
                  /\ \A other \in SessionIds \ {sid} : GameEndedCount(w.sent, other) = 0
                  /\ (n = 1) <=> (StatusOf(World, sid) = "playing" /\ StatusOf(w, sid) = "ended")
                  /\ (n = 1) => /\ ~cleanupTimer[sid]
                                /\ ResultsPerPlayer(GameEndedResults(w.sent),
                                                    sessions[sid].players)]_vars

\* C29 witness: a game of two players has just ended in which a player gave a
\* correct and a wrong answer.
C29_Witness ==
  /\ last.op = "revealDone"
  /\ last.before = "playing"
  /\ last.sid \in DOMAIN sessions
  /\ sessions[last.sid].status = "ended"
  /\ Len(sessions[last.sid].players) = 2
  /\ \E i \in 1..2 :
       LET p == sessions[last.sid].players[i]
       IN CorrectCount(p.answers) = 1 /\ Len(p.answers) = 2

\* C31: the lobby deadline of a session is started exactly once, by the join
\* that creates the session: every session of the registry has had
\* startLobbyTimer run for it once, and whenever a lobby deadline becomes
\* pending the step is a join and the session was not in the registry before;
\* later joins, readies and removals neither start it again nor re-arm it.
C31_LobbyTimerOnce ==
  [][\A sid \in SessionIds :
       /\ sid \in DOMAIN sessions' => sessions'[sid].lobbyStarts = 1
       /\ (lobbyTimer'[sid] /\ ~lobbyTimer[sid])
            => /\ sid \notin DOMAIN sessions
               /\ sid \in DOMAIN sessions'
               /\ last'.op = "join"
               /\ last'.sid = sid]_vars

\* C31 witness: a socket just joined a lobby session that another player
\* created and in which a player is ready, and the deadline armed at the
\* creation is still pending.
C31_Witness ==
  /\ last.op = "join"
  /\ last.before = "lobby"
  /\ last.sid \in DOMAIN sessions
  /\ Len(sessions[last.sid].players) >= 2
  /\ \E i \in 1..Len(sessions[last.sid].players) : sessions[last.sid].players[i].isReady
  /\ lobbyTimer[last.sid]
  /\ sessions[last.sid].lobbyStarts = 1

\* the sessions of the registry a joiner can be seated in: status lobby and
\* fewer than CAPACITY players
OpenLobbies ==
  { sid \in DOMAIN sessions :
      sessions[sid].status = "lobby" /\ Len(sessions[sid].players) < CAPACITY }

\* C32: the join handler run for a connected socket that is in no session
\* seats it in the first session, in registry insertion order (the order of
\* the ids handed out), that is in lobby with fewer than CAPACITY players, and
\* creates no session then; it creates a session only when there is no such
\* session, and seats the socket in the one it created.
C32_FirstOpenLobby ==
  \A c \in Arrivals :
    (conn[c] = "open" /\ FindSessionOf(World, c) = 0)
      => \A draw \in selectRandomQuestions(AdmissionQuestions) :
           LET w == join(World, c, draw)
               t == FindSessionOf(w, c)
           IN /\ OpenLobbies # {}
                   => /\ t \in OpenLobbies
                      /\ \A o \in OpenLobbies : t <= o
                      /\ DOMAIN w.sessions = DOMAIN sessions
              /\ DOMAIN w.sessions # DOMAIN sessions
                   => /\ OpenLobbies = {}
                      /\ DOMAIN w.sessions = (DOMAIN sessions) \cup {t}
                      /\ t \notin DOMAIN sessions

\* C32 witness: a socket was just seated in a lobby session that had a free
\* seat while a session created later is in lobby with free seats too.
C32_Witness ==
  /\ last.op = "join"
  /\ last.before = "lobby"
  /\ last.sid \in DOMAIN sessions
  /\ \E other \in OpenLobbies : other > last.sid

\* every sequence of 1..NumTimed average latencies
LatencyLists == UNION { [1..n -> Latencies] : n \in Timed }

\* the averageLatency values of the players of session s
LatenciesOf(s, st) == [i \in 1..Len(s.players) |-> st[s.players[i].id]]

\* t is the time limit the policy gives for the latencies l, whose mean is
\* SumLatency(l) / Len(l): an integer in MIN..MAX, MIN up to 100 ms, MAX from
\* 500 ms, otherwise the integer nearest to 10 + (mean - 100) / 40, the upper
\* one at a tie
PolicyLimit(t, l) ==
  LET n == Len(l)
      total == SumLatency(l)
      \* 40 * n * (10 + (mean - 100) / 40)
      exact == 400 * n + total - 100 * n
  IN /\ t \in MIN_QUESTION_TIMER..MAX_QUESTION_TIMER
     /\ total <= 100 * n => t = MIN_QUESTION_TIMER
     /\ total >= 500 * n => t = MAX_QUESTION_TIMER
     /\ (total > 100 * n /\ total < 500 * n)
          => /\ 2 * (40 * n * t - exact) <= 40 * n
             /\ 2 * (exact - 40 * n * t) < 40 * n

\* C33: the time limit computed when a question starts is an integer in
\* 10..20: 10 when the mean of the players' average latencies is at most
\* 100 ms, 20 when it is at least 500 ms, round(10 + (mean - 100) / 40)
\* otherwise; and it is non-decreasing in the mean latency: no assignment of
\* latencies with a mean at least as large gets a smaller limit.
C33_AdaptiveTimer ==
  [][\A sid \in DOMAIN sessions' :
       (questionTimer'[sid] # NoTimer /\ questionTimer'[sid] # questionTimer[sid])
         => LET l == LatenciesOf(sessions'[sid], stats')
                t == questionTimer'[sid].timeLimit
            IN /\ PolicyLimit(t, l)
               /\ \A other \in LatencyLists :
                    SumLatency(other) * Len(l) >= SumLatency(l) * Len(other)
                      => TimerFor(other) >= t]_vars

\* C33 witness: the deadline of a question is pending whose limit was rounded
\* up from a tie, for three players of different latencies.
C33_Witness ==
  \E sid \in DOMAIN sessions :
    /\ questionTimer[sid] # NoTimer
    /\ questionTimer[sid].timeLimit = 13
    /\ Len(sessions[sid].players) = 3
    /\ LatenciesOf(sessions[sid], stats) = <<100, 200, 300>>
    /\ last.op = "revealDone"

\* the players of list before other than socket c are the list after, in the
\* same order and with the same fields
OthersKept(before, after, c) ==
  /\ Len(after) = Len(before) - 1
  /\ \A i \in 1..Len(before) :
       before[i].id # c
         => \E k \in 1..Len(after) :
              /\ after[k] = before[i]
              /\ k = Cardinality({ j \in 1..i : before[j].id # c })

\* C34: the removal of a disconnected player from a session that keeps at
\* least one player changes only that session's players list: the other
\* players keep their place, score, answers, ready and host flags; the
\* session's status, questions and currentQuestionIndex, every other session,
\* and every pending timer are as before, so the question cycle goes on.
C34_RemovalFrame ==
  \A c \in Conns :
    LET sid == FindSessionOf(World, c)
        w == removePlayer(World, c)
    IN (conn[c] = "closing" /\ sid # 0 /\ Len(sessions[sid].players) >= 2)
         => /\ DOMAIN w.sessions = DOMAIN sessions
            /\ \A other \in DOMAIN sessions :
                 other # sid => w.sessions[other] = sessions[other]
            /\ OthersKept(sessions[sid].players, w.sessions[sid].players, c)
            /\ [w.sessions[sid] EXCEPT !.players = <<>>]
                 = [sessions[sid] EXCEPT !.players = <<>>]
            /\ w.nextSid = nextSid
            /\ w.lobbyTimer = lobbyTimer
            /\ w.lobbyTimerInterval = lobbyTimerInterval
            /\ w.timerInterval = timerInterval
            /\ w.questionTimer = questionTimer
            /\ w.revealTimer = revealTimer
            /\ w.cleanupTimer = cleanupTimer

\* C34 witness: a disconnected player was just removed from a playing
\* session; the other player is still there and the deadline of the current
\* question is still pending.
C34_Witness ==
  /\ last.op = "removal"
  /\ last.before = "playing"
  /\ last.sid \in DOMAIN sessions
  /\ sessions[last.sid].status = "playing"
  /\ Len(sessions[last.sid].players) = 1
  /\ questionTimer[last.sid] # NoTimer
  /\ questionTimer[last.sid].index = sessions[last.sid].currentQuestionIndex

\* session.questions[session.currentQuestionIndex] is undefined
NoCurrentQuestion(s) ==
  ~(s.currentQuestionIndex >= 0 /\ s.currentQuestionIndex < Len(s.questions))

\* C35: the submitAnswer handler run for a connected socket that is a player
\* of no session, or whose session has no current question
\* (questions[currentQuestionIndex] is undefined), leaves every session, every
\* player and every timer as they are and sends nothing to any other
\* connection.
C35_StrayAnswerIgnored ==
  \A c \in Conns : \A answer \in Options :
    LET sid == FindSessionOf(World, c)
        w == submitAnswer(World, c, answer)
    IN (conn[c] = "open" /\ (sid = 0 \/ NoCurrentQuestion(sessions[sid])))
         => /\ Untouched(w)
            /\ \A k \in 1..Len(w.sent) : w.sent[k].room = 0 /\ w.sent[k].socket = c

\* C35 witness: the socket that submits answers is connected and a player of a
\* session that has ended, with an answer recorded during the game, while a
\* connected socket is a player of no session.
C35_Witness ==
  /\ \E sid \in DOMAIN sessions : \E c \in Answerers :
       /\ conn[c] = "open"
       /\ HasPlayer(sessions[sid], c)
       /\ sessions[sid].status = "ended"
       /\ NoCurrentQuestion(sessions[sid])
       /\ sessions[sid].players[PlayerIndex(sessions[sid], c)].answers # <<>>
  /\ \E c \in Players : conn[c] = "open" /\ FindSessionOf(World, c) = 0

\* C36: answers are recorded only while the session is playing: the
\* submitAnswer handler run for a connected player whose session is in lobby
\* or ended leaves the answers and score of every player as they are, and a
\* submitAnswer that changes a session finds it playing.
C36_AnswersOnlyWhilePlaying ==
  \A c \in Conns : \A answer \in Options :
    LET sid == FindSessionOf(World, c)
        w == submitAnswer(World, c, answer)
    IN (conn[c] = "open" /\ sid # 0)
         => /\ sessions[sid].status \in {"lobby", "ended"}
                 => /\ sessions[sid].currentQuestionIndex
                         = (IF sessions[sid].status = "lobby"
                              THEN -1 ELSE Len(sessions[sid].questions))
                    /\ \A i \in 1..Len(sessions[sid].players) :
                         /\ w.sessions[sid].players[i].answers
                              = sessions[sid].players[i].answers
                         /\ w.sessions[sid].players[i].score
                              = sessions[sid].players[i].score
            /\ w.sessions # sessions => sessions[sid].status = "playing"

\* C36 witness: the socket that submits answers is connected, ready and a
\* player of a session of two players that is still in lobby.
C36_Witness ==
  \E sid \in DOMAIN sessions : \E c \in Answerers :
    /\ conn[c] = "open"
    /\ HasPlayer(sessions[sid], c)
    /\ sessions[sid].status = "lobby"
    /\ sessions[sid].currentQuestionIndex = -1
    /\ Len(sessions[sid].players) = 2
    /\ sessions[sid].players[PlayerIndex(sessions[sid], c)].isReady

\* the ids of the players of session s
PlayerIds(s) == { s.players[i].id : i \in 1..Len(s.players) }

\* in the handler result w no session that is playing or ended now has a
\* player it does not have now, nor more players than now
NoGain(w) ==
  \A sid \in (DOMAIN sessions) \cap (DOMAIN w.sessions) :
    sessions[sid].status # "lobby"
      => /\ PlayerIds(w.sessions[sid]) \subseteq PlayerIds(sessions[sid])
         /\ Len(w.sessions[sid].players) <= Len(sessions[sid].players)
         /\ w.sessions[sid].status # "lobby"

\* C37: players are added only to sessions in lobby: whichever handler runs
\* next (join, ready, submitAnswer, startGame, a removal, a timer callback), a
\* session that is playing or ended gains no player id and no seat, and does
\* not go back to lobby, so its player count does not grow until it is
\* deleted.
C37_NoLateSeat ==
  /\ \A c \in Conns :
       /\ conn[c] = "open"
            => /\ \A draw \in selectRandomQuestions(AdmissionQuestions) :
                    NoGain(join(World, c, draw))
               /\ NoGain(ready(World, c))
               /\ NoGain(onStartGame(World, c))
               /\ \A answer \in Options : NoGain(submitAnswer(World, c, answer))
       /\ conn[c] = "closing" => NoGain(removePlayer(World, c))
  /\ \A sid \in SessionIds :
       /\ lobbyTimer[sid] => NoGain(onLobbyTimer(World, sid))
       /\ questionTimer[sid] # NoTimer => NoGain(onQuestionTimer(World, sid))
       /\ revealTimer[sid] => NoGain(onRevealDone(World, sid))
       /\ cleanupTimer[sid] => NoGain(onCleanup(World, sid))

\* C37 witness: a join just created a session while another session is
\* playing with a free seat: the joiner was not seated in the playing one.
C37_Witness ==
  /\ last.op = "join"
  /\ last.before = "none"
  /\ last.sid \in DOMAIN sessions
  /\ \E other \in DOMAIN sessions :
       /\ other # last.sid
       /\ sessions[other].status = "playing"
       /\ Len(sessions[other].players) < CAPACITY

\* socket c is the isHost player of a session
IsHostSocket(c) ==
  \E sid \in DOMAIN sessions :
    /\ HasPlayer(sessions[sid], c)
    /\ sessions[sid].players[PlayerIndex(sessions[sid], c)].isHost

\* C38: the startGame handler run for a connected socket that is not the
\* isHost player of a session (a player who is not host, or a socket in no
\* session) leaves every session (status, currentQuestionIndex, players),
\* every timer and the ids handed out as they are, and sends nothing.
C38_StartGameHostOnly ==
  \A c \in Conns :
    (conn[c] = "open" /\ ~IsHostSocket(c))
      => /\ Untouched(onStartGame(World, c))
         /\ onStartGame(World, c).sent = <<>>

\* C38 witness: a connected player who is not host sits in a lobby session
\* whose host has just been removed.
C38_Witness ==
  /\ \E sid \in DOMAIN sessions : \E c \in Players :
       /\ conn[c] = "open"
       /\ HasPlayer(sessions[sid], c)
       /\ sessions[sid].status = "lobby"
       /\ HostCount(sessions[sid]) = 0
  /\ last.op = "removal"

====
